---- MODULE Spec2Model ----
(***************************************************************************)
(* Model of src/finance_app_streamlit.py: the transaction pipeline run by  *)
(* display_dashboard (parse_file, remove_duplicates,                       *)
(* categorize_transactions, detect_internal_transfers, assign_competence,  *)
(* compute_summary, summary_by_type).                                      *)
(*                                                                         *)
(* Representation.  A Python str is a sequence of one-character strings.   *)
(* The accented letters of the source are the atoms "e^" and "u'".  A      *)
(* cell of a text column is a record [kind, s]: kind "str" with its text,  *)
(* kind "nan" for the float NaN that pandas stores for a missing value,    *)
(* kind "none" for the None that row.get returns when the column does not  *)
(* exist.  Amounts are integers counting thousandths of the currency unit.  *)
(*                                                                         *)
(* Line 393 of the source, ax.set_xlabel("Valor (R$")"), is an             *)
(* unterminated string literal; the model reads the file as if that label  *)
(* were well formed and gives the functions the behaviour their bodies     *)
(* state.                                                                  *)
(***************************************************************************)
EXTENDS Integers, Sequences, FiniteSets, TLC

VARIABLES
    stage,          \* position of display_dashboard in its call sequence
    file,           \* the uploaded table: its columns and raw rows
    cols,           \* columns of the working DataFrame
    df,             \* rows of the working DataFrame, in index order
    rules,          \* the rule list handed to categorize_transactions
    cycle_start_day,\* sidebar parameter
    summary,        \* rows returned by compute_summary
    views,          \* the three frames returned by summary_by_type
    error           \* the exception that ended the run, "" if none

vars == <<stage, file, cols, df, rules, cycle_start_day, summary, views, error>>

----------------------------------------------------------------------------
(* Python str operations *)

UpperChars ==
    <<"A","B","C","D","E","F","G","H","I","J","K","L","M",
      "N","O","P","Q","R","S","T","U","V","W","X","Y","Z","E^","U'">>
LowerChars ==
    <<"a","b","c","d","e","f","g","h","i","j","k","l","m",
      "n","o","p","q","r","s","t","u","v","w","x","y","z","e^","u'">>

\* str.lower() on one character
LowerChar(c) ==
    IF \E i \in 1..Len(UpperChars) : UpperChars[i] = c
    THEN LowerChars[CHOOSE i \in 1..Len(UpperChars) : UpperChars[i] = c]
    ELSE c

\* str.lower()
Lower(s) == [i \in 1..Len(s) |-> LowerChar(s[i])]

\* the Python expression  kw in text  on two str values
Contains(kw, text) ==
    \E i \in 0..(Len(text) - Len(kw)) :
        \A j \in 1..Len(kw) : text[i + j] = kw[j]

\* cells of a text column
NoneCell == [kind |-> "none", s |-> <<>>]
NaNCell == [kind |-> "nan", s |-> <<>>]
Str(s) == [kind |-> "str", s |-> s]

\* bool(x) for the values a text cell holds: None and "" are falsy, NaN
\* (a non-zero float) and every non-empty str are truthy
Truthy(cell) ==
    CASE cell.kind = "none" -> FALSE
      [] cell.kind = "nan" -> TRUE
      [] OTHER -> Len(cell.s) > 0

\* str(x) for the values a text cell holds
PyStr(cell) ==
    CASE cell.kind = "none" -> <<"N","o","n","e">>
      [] cell.kind = "nan" -> <<"n","a","n">>
      [] OTHER -> cell.s

----------------------------------------------------------------------------
(* CategoryRule and load_category_rules *)

CategoryRule(category, subcategory, keywords, is_fixed, is_extraordinary, is_investment, is_valonni) ==
    [category |-> category, subcategory |-> subcategory, keywords |-> keywords,
     is_fixed |-> is_fixed, is_extraordinary |-> is_extraordinary,
     is_investment |-> is_investment, is_valonni |-> is_valonni]

\* subcategory=None
NoSub == "<None>"

kwIsabelaValonni == <<"I","s","a","b","e","l","a"," ","V","a","l","o","n","n","i">>
kwTransferenciaInterna ==
    <<"T","r","a","n","s","f","e","r","e^","n","c","i","a"," ","i","n","t","e","r","n","a">>
kw99Tecnologia == <<"9","9"," ","T","e","c","n","o","l","o","g","i","a">>
kwOutback == <<"O","u","t","b","a","c","k">>
kwClarkPatisserie == <<"C","l","a","r","k"," ","P","a","t","i","s","s","e","r","i","e">>
kwPassionePerGelato ==
    <<"P","a","s","s","i","o","n","e"," ","P","e","r"," ","G","e","l","a","t","o">>
kwYokuboRestaurante ==
    <<"Y","o","k","u","b","o"," ","R","e","s","t","a","u","r","a","n","t","e">>
kwArmazemUrbano == <<"A","r","m","a","z","e","m"," ","U","r","b","a","n","o">>
kwSupermercados == <<"S","u","p","e","r","m","e","r","c","a","d","o","s">>
kwSuperMercado == <<"S","u","p","e","r"," ","M","e","r","c","a","d","o">>
kwVianense == <<"V","i","a","n","e","n","s","e">>
kwLudiAutoPecas == <<"L","u","d","i"," ","A","u","t","o"," ","P","e","c","a","s">>
kwYasmin == <<"Y","a","s","m","i","n">>
kwDiego == <<"D","i","e","g","o">>
kwBradescoSaude == <<"B","r","a","d","e","s","c","o"," ","S","a","u","d","e">>
kwBradescoSaudeAcento == <<"B","r","a","d","e","s","c","o"," ","S","a","u'","d","e">>
kwVenancio == <<"V","e","n","a","n","c","i","o">>
kwDrogarias == <<"D","r","o","g","a","r","i","a","s">>
kwPaula == <<"P","a","u","l","a">>
kwCarla == <<"C","a","r","l","a">>
kwPetshop == <<"P","e","t","s","h","o","p">>
kwPets == <<"P","e","t","s">>
kwLeonardoAires == <<"L","e","o","n","a","r","d","o"," ","A","i","r","e","s">>
kwPaulaCR == <<"P","a","u","l","a"," ","C"," ","R">>
kwAndeDaSilvaLopes ==
    <<"A","n","d","e"," ","D","a"," ","S","i","l","v","a"," ","L","o","p","e","s">>
kwWise == <<"W","i","s","e">>

ruleTransferencia ==
    CategoryRule("Transferencia interna", NoSub,
                 <<kwIsabelaValonni, kwTransferenciaInterna>>,
                 FALSE, FALSE, FALSE, FALSE)
ruleRestaurantes ==
    CategoryRule("Alimentacao", "Restaurantes",
                 <<kw99Tecnologia, kwOutback, kwClarkPatisserie,
                   kwPassionePerGelato, kwYokuboRestaurante>>,
                 FALSE, FALSE, FALSE, FALSE)
ruleMercado ==
    CategoryRule("Alimentacao", "Mercado",
                 <<kwArmazemUrbano, kwSupermercados, kwSuperMercado, kwVianense>>,
                 TRUE, FALSE, FALSE, FALSE)
ruleCarro ==
    CategoryRule("Carro", "Compra/Manutencao",
                 <<kwLudiAutoPecas, kwYasmin, kwDiego>>,
                 FALSE, TRUE, FALSE, FALSE)
rulePlanoDeSaude ==
    CategoryRule("Saude", "Plano de saude",
                 <<kwBradescoSaude, kwBradescoSaudeAcento>>,
                 TRUE, FALSE, FALSE, FALSE)
ruleFarmacia ==
    CategoryRule("Saude", "Farmacia",
                 <<kwVenancio, kwDrogarias>>,
                 FALSE, FALSE, FALSE, FALSE)
ruleMoradia ==
    CategoryRule("Moradia", "Aluguel/Condominio",
                 <<kwPaula, kwCarla>>,
                 TRUE, FALSE, FALSE, FALSE)
rulePets ==
    CategoryRule("Pets", "Gastos com Pets",
                 <<kwPetshop, kwPets>>,
                 TRUE, FALSE, FALSE, FALSE)
ruleValonni ==
    CategoryRule("Empresa Valonni", "Repasse",
                 <<kwLeonardoAires, kwPaulaCR, kwAndeDaSilvaLopes, kwWise>>,
                 FALSE, FALSE, FALSE, TRUE)
ruleInvestimentos ==
    CategoryRule("Investimentos", "Yasmin",
                 <<kwYasmin>>,
                 FALSE, FALSE, TRUE, FALSE)

\* the shipped list with the Investimentos rule moved in front of the
\* Carro rule
load_category_rules_InvestFirst ==
    << ruleTransferencia, ruleRestaurantes, ruleMercado, ruleInvestimentos,
       ruleCarro, rulePlanoDeSaude, ruleFarmacia, ruleMoradia, rulePets,
       ruleValonni >>

\* the shipped list with the Empresa Valonni rule also flagged as an
\* investment
load_category_rules_BothFlags ==
    << ruleTransferencia, ruleRestaurantes, ruleMercado, ruleCarro,
       rulePlanoDeSaude, ruleFarmacia, ruleMoradia, rulePets,
       [ruleValonni EXCEPT !.is_investment = TRUE], ruleInvestimentos >>

load_category_rules ==
    << ruleTransferencia, ruleRestaurantes, ruleMercado, ruleCarro,
       rulePlanoDeSaude, ruleFarmacia, ruleMoradia, rulePets, ruleValonni,
       ruleInvestimentos >>

----------------------------------------------------------------------------
(* Cells of the other columns *)

\* amount after pd.to_numeric: a number (in thousandths) or NaN
NaNAmount == [kind |-> "nan", v |-> 0]
Num(v) == [kind |-> "num", v |-> v]

\* date after pd.to_datetime: a Timestamp or NaT
NaT == [kind |-> "nat", y |-> 0, m |-> 0, d |-> 0]
Date(y, m, d) == [kind |-> "date", y |-> y, m |-> m, d |-> d]

\* an identifier cell: a value or NaN
NaNId == [kind |-> "nan", v |-> 0]
Id(v) == [kind |-> "val", v |-> v]

\* competence: a datetime.date or None
NoCompetence == [kind |-> "none", y |-> 0, m |-> 0]
Competence(y, m) == [kind |-> "date", y |-> y, m |-> m]

----------------------------------------------------------------------------
(* parse_file *)

\* rename_map restricted to the column names the model feeds in; a name
\* that is not a key passes through unchanged
rename_map(c) ==
    CASE c = "data" -> "date"
      [] c = "valor" -> "amount"
      [] c = "operationid" -> "operation_id"
      [] OTHER -> c

\* str.replace(old, "") / str.replace(old, new) for one-character old
RECURSIVE ReplaceChar(_, _, _)
ReplaceChar(s, old, new) ==
    IF s = <<>> THEN <<>>
    ELSE (IF Head(s) = old THEN new ELSE <<Head(s)>>) \o ReplaceChar(Tail(s), old, new)

Digits == <<"0","1","2","3","4","5","6","7","8","9">>
IsDigit(c) == \E i \in 1..10 : Digits[i] = c
DigitVal(c) == (CHOOSE i \in 1..10 : Digits[i] = c) - 1

RECURSIVE DigitsVal(_)
DigitsVal(s) ==
    IF s = <<>> THEN 0 ELSE DigitsVal(SubSeq(s, 1, Len(s) - 1)) * 10 + DigitVal(s[Len(s)])

AllDigits(s) == \A i \in 1..Len(s) : IsDigit(s[i])

\* pd.to_numeric(errors="coerce") on one str: an optionally signed decimal
\* literal with at most three fraction digits gives its value in
\* thousandths, anything else gives NaN
to_numeric(s) ==
    LET neg == Len(s) > 0 /\ s[1] = "-"
        body == IF neg THEN Tail(s) ELSE s
        dots == {i \in 1..Len(body) : body[i] = "."}
        dot == IF dots = {} THEN Len(body) + 1 ELSE CHOOSE i \in dots : TRUE
        ip == SubSeq(body, 1, dot - 1)
        fp == SubSeq(body, dot + 1, Len(body))
        pad == CASE Len(fp) = 0 -> 1000 [] Len(fp) = 1 -> 100
                 [] Len(fp) = 2 -> 10 [] OTHER -> 1
        mag == DigitsVal(ip) * 1000 + DigitsVal(fp) * pad
    IN  IF /\ Cardinality(dots) <= 1
           /\ AllDigits(ip) /\ AllDigits(fp)
           /\ Len(ip) + Len(fp) > 0
           /\ Len(fp) <= 3
        THEN Num(IF neg THEN -mag ELSE mag)
        ELSE NaNAmount

\* lines 175-181: astype(str), drop ".", turn "," into ".", to_numeric
AmountOf(cell) ==
    to_numeric(ReplaceChar(ReplaceChar(PyStr(cell), ".", <<>>), ",", <<".">>))

\* pd.to_datetime(errors="coerce") on one cell: a parseable cell gives its
\* Timestamp, anything else (kind "text", kind "nat") gives NaT
to_datetime(cell) == IF cell.kind = "date" THEN cell ELSE NaT

\* the row of the working frame; derived columns hold their defaults until
\* the stage that adds them has run
ParsedRow(raw, c) ==
    [date |-> IF "date" \in c THEN to_datetime(raw.date) ELSE NaT,
     title |-> IF "title" \in c THEN raw.title ELSE NoneCell,
     description |-> IF "description" \in c THEN raw.description ELSE NoneCell,
     amount |-> AmountOf(raw.amount),
     operation_id |-> IF "operation_id" \in c THEN raw.operation_id ELSE NaNId,
     activity_id |-> IF "activity_id" \in c THEN raw.activity_id ELSE NaNId,
     category |-> "", subcategory |-> "",
     is_fixed |-> FALSE, is_extraordinary |-> FALSE,
     is_investment |-> FALSE, is_valonni |-> FALSE,
     competence |-> NoCompetence]

\* the frame parse_file returns: a missing amount column gives pd.DataFrame()
\* (no columns, no rows); a missing date column gives a date column of NaT
parse_file(f) ==
    LET renamed == {rename_map(c) : c \in f.columns}
    IN  IF "amount" \in renamed
        THEN [cols |-> renamed \cup {"date"},
              rows |-> [i \in 1..Len(f.rows) |-> ParsedRow(f.rows[i], renamed)]]
        ELSE [cols |-> {}, rows |-> <<>>]

----------------------------------------------------------------------------
(* remove_duplicates *)

IsNull(cell) == cell.kind \in {"nan", "nat", "none"}

\* key equality under which a missing value equals nothing, itself included
KeyEq_NaNDistinct(a, b) == ~IsNull(a) /\ ~IsNull(b) /\ a = b

\* equality of two key cells as DataFrame.duplicated sees it: missing
\* values are one key value, equal to each other
KeyEq(a, b) ==
    \/ IsNull(a) /\ IsNull(b)
    \/ ~IsNull(a) /\ ~IsNull(b) /\ a = b

\* the branches of lines 191-194 in the other order
DedupSubset_ActivityFirst(c) ==
    IF "activity_id" \in c THEN {"activity_id"}
    ELSE IF "operation_id" \in c THEN {"operation_id"}
    ELSE {"date", "description", "amount"}

\* the subset= argument chosen by lines 191-197
DedupSubset(c) ==
    IF "operation_id" \in c THEN {"operation_id"}
    ELSE IF "activity_id" \in c THEN {"activity_id"}
    ELSE {"date", "description", "amount"}

\* the index positions DataFrame.drop_duplicates(subset, keep="first") keeps
KeptPositions(rows, subset) ==
    {i \in 1..Len(rows) :
        ~\E j \in 1..(i - 1) : \A k \in subset : KeyEq(rows[i][k], rows[j][k])}

\* the rows at the positions of P, in index order
RECURSIVE SelectPositions(_, _, _)
SelectPositions(rows, P, i) ==
    IF i > Len(rows) THEN <<>>
    ELSE (IF i \in P THEN <<rows[i]>> ELSE <<>>) \o SelectPositions(rows, P, i + 1)

drop_duplicates(rows, subset) == SelectPositions(rows, KeptPositions(rows, subset), 1)

\* remove_duplicates on a frame with columns c.  drop_duplicates returns an
\* empty frame as it is; on a frame with rows a subset column that does not
\* exist raises KeyError
remove_duplicates(c, rows) ==
    IF rows = <<>> \/ c = {}
    THEN [err |-> "", rows |-> rows]
    ELSE IF ~(DedupSubset(c) \subseteq c)
    THEN [err |-> "KeyError", rows |-> rows]
    ELSE [err |-> "", rows |-> drop_duplicates(rows, DedupSubset(c))]

----------------------------------------------------------------------------
(* categorize_transactions *)

\* line 218: str(row.get("title") or row.get("description") or "").lower()
MatchText(row) ==
    Lower(PyStr(IF Truthy(row.title) THEN row.title
                ELSE IF Truthy(row.description) THEN row.description
                ELSE Str(<<>>)))

\* line 221: any(keyword.lower() in desc for keyword in rule.keywords)
RuleMatches(rule, desc) ==
    \E k \in 1..Len(rule.keywords) : Contains(Lower(rule.keywords[k]), desc)

\* the loop of lines 220-229 without its break: the last matching rule
FirstMatch_NoBreak(rs, desc) ==
    IF \E i \in 1..Len(rs) : RuleMatches(rs[i], desc)
    THEN CHOOSE i \in 1..Len(rs) :
            /\ RuleMatches(rs[i], desc)
            /\ \A j \in (i + 1)..Len(rs) : ~RuleMatches(rs[j], desc)
    ELSE 0

\* the rule the loop of lines 220-229 stops at, 0 when it runs to the end
FirstMatch(rs, desc) ==
    IF \E i \in 1..Len(rs) : RuleMatches(rs[i], desc)
    THEN CHOOSE i \in 1..Len(rs) :
            /\ RuleMatches(rs[i], desc)
            /\ \A j \in 1..(i - 1) : ~RuleMatches(rs[j], desc)
    ELSE 0

\* rule.subcategory or ""
SubOrEmpty(sub) == IF sub = NoSub THEN "" ELSE sub

\* one row with the six derived columns of lines 222-236
CategorizeRow(row, rs) ==
    LET m == FirstMatch(rs, MatchText(row))
    IN  IF m > 0
        THEN [row EXCEPT !.category = rs[m].category,
                         !.subcategory = SubOrEmpty(rs[m].subcategory),
                         !.is_fixed = rs[m].is_fixed,
                         !.is_extraordinary = rs[m].is_extraordinary,
                         !.is_investment = rs[m].is_investment,
                         !.is_valonni = rs[m].is_valonni]
        ELSE [row EXCEPT !.category = "Revisar",
                         !.subcategory = "",
                         !.is_fixed = FALSE,
                         !.is_extraordinary = FALSE,
                         !.is_investment = FALSE,
                         !.is_valonni = FALSE]

categorize_transactions(rows, rs) == [i \in 1..Len(rows) |-> CategorizeRow(rows[i], rs)]

DerivedByCategorize ==
    {"category", "subcategory", "is_fixed", "is_extraordinary", "is_investment", "is_valonni"}

----------------------------------------------------------------------------
(* detect_internal_transfers *)

HolderName == <<"i","s","a","b","e","l","a"," ","v","a","l","o","n","n","i">>

\* Series.str.contains("isabela valonni", case=False, na=False) on one cell
str_contains(cell, pat) ==
    IF cell.kind = "str" THEN Contains(Lower(pat), Lower(cell.s)) ELSE FALSE

\* line 284 without the mask of line 283
TransferRow_NoMask(row) ==
    IF str_contains(row.description, HolderName)
    THEN [row EXCEPT !.category = "Transferencia interna"]
    ELSE row

TransferRow(row) ==
    IF row.category = "Revisar" /\ str_contains(row.description, HolderName)
    THEN [row EXCEPT !.category = "Transferencia interna"]
    ELSE row

\* df["description"] raises KeyError without the column; the .str accessor
\* raises AttributeError on a column that is not of string dtype, which is
\* what a column with rows and no str value in any of them is
detect_internal_transfers(c, rows) ==
    IF "description" \notin c
    THEN [err |-> "KeyError", rows |-> rows]
    ELSE IF rows # <<>> /\ \A i \in 1..Len(rows) : rows[i].description.kind # "str"
    THEN [err |-> "AttributeError", rows |-> rows]
    ELSE [err |-> "", rows |-> [i \in 1..Len(rows) |-> TransferRow(rows[i])]]

----------------------------------------------------------------------------
(* assign_competence *)

IsLeap(y) == (y % 4 = 0 /\ y % 100 # 0) \/ y % 400 = 0

DaysInMonth(y, m) ==
    CASE m \in {4, 6, 9, 11} -> 30
      [] m = 2 -> IF IsLeap(y) THEN 29 ELSE 28
      [] OTHER -> 31

Min(a, b) == IF a < b THEN a ELSE b

\* a month added without moving the day back: a day the next month does
\* not have runs over into the month after it
AddOneMonth_Overflow(date) ==
    LET y == IF date.m = 12 THEN date.y + 1 ELSE date.y
        m == IF date.m = 12 THEN 1 ELSE date.m + 1
    IN  IF date.d <= DaysInMonth(y, m)
        THEN Date(y, m, date.d)
        ELSE Date(y, m + 1, date.d - DaysInMonth(y, m))

\* date + pd.DateOffset(months=1): the same day of the next month, moved
\* back to that month's last day when the month is shorter
AddOneMonth(date) ==
    LET y == IF date.m = 12 THEN date.y + 1 ELSE date.y
        m == IF date.m = 12 THEN 1 ELSE date.m + 1
    IN  Date(y, m, Min(date.d, DaysInMonth(y, m)))

\* lines 258-269 for one date
CompetenceOf(date, csd) ==
    IF date.kind = "nat" THEN NoCompetence
    ELSE IF date.d >= csd
    THEN LET comp_date == AddOneMonth(date) IN Competence(comp_date.y, comp_date.m)
    ELSE Competence(date.y, date.m)

assign_competence(c, rows, csd) ==
    IF "date" \notin c
    THEN [err |-> "KeyError", rows |-> rows]
    ELSE [err |-> "",
          rows |-> [i \in 1..Len(rows) |->
                      [rows[i] EXCEPT !.competence = CompetenceOf(rows[i].date, csd)]]]

----------------------------------------------------------------------------
(* compute_summary and summary_by_type *)

\* a frame returned as pd.DataFrame(): no rows and no columns
BareFrame == [bare |-> TRUE, rows |-> {}]

GroupKey(row) ==
    [competence |-> row.competence, category |-> row.category,
     is_fixed |-> row.is_fixed, is_extraordinary |-> row.is_extraordinary,
     is_investment |-> row.is_investment, is_valonni |-> row.is_valonni]

\* groupby(...)["amount"].sum() for one group: NaN amounts are skipped
RECURSIVE GroupSum(_, _)
GroupSum(rows, key) ==
    IF rows = <<>> THEN 0
    ELSE (IF GroupKey(Head(rows)) = key /\ Head(rows).amount.kind = "num"
          THEN Head(rows).amount.v ELSE 0) + GroupSum(Tail(rows), key)

\* groupby(..., dropna=False): a missing competence is a group of its own
GroupKeys_KeepNull(rows) == {GroupKey(rows[i]) : i \in 1..Len(rows)}

\* groupby drops the rows whose key has a missing value (dropna=True); the
\* only key column that can be missing is competence
GroupKeys(rows) ==
    {GroupKey(rows[i]) : i \in {j \in 1..Len(rows) : rows[j].competence.kind # "none"}}

compute_summary(rows) ==
    IF rows = <<>> THEN BareFrame
    ELSE [bare |-> FALSE,
          rows |-> {[competence |-> k.competence, category |-> k.category,
                     is_fixed |-> k.is_fixed, is_extraordinary |-> k.is_extraordinary,
                     is_investment |-> k.is_investment, is_valonni |-> k.is_valonni,
                     total_amount |-> GroupSum(rows, k)] : k \in GroupKeys(rows)}]

summary_by_type(s) ==
    IF s.rows = {}
    THEN [pessoal |-> BareFrame, valonni |-> BareFrame, invest |-> BareFrame]
    ELSE [pessoal |-> [bare |-> FALSE,
                       rows |-> {r \in s.rows : ~r.is_valonni /\ ~r.is_investment}],
          valonni |-> [bare |-> FALSE, rows |-> {r \in s.rows : r.is_valonni}],
          invest |-> [bare |-> FALSE, rows |-> {r \in s.rows : r.is_investment}]]

----------------------------------------------------------------------------
(* display_dashboard, one action per call of lines 345-398 *)

NoFile == [present |-> FALSE, columns |-> {}, rows |-> <<>>]
NoSummary == [bare |-> TRUE, rows |-> {}]
NoViews == [pessoal |-> BareFrame, valonni |-> BareFrame, invest |-> BareFrame]

\* an exception leaves the script: nothing after the raising call runs
Raise(e) == stage' = "crashed" /\ error' = e

\* line 346 with uploaded_file None, then the else branch of line 402
NoUpload ==
    /\ stage = "start" /\ ~file.present
    /\ stage' = "done"
    /\ UNCHANGED <<file, cols, df, rules, cycle_start_day, summary, views, error>>

\* line 348
ParseFile ==
    /\ stage = "start" /\ file.present
    /\ cols' = parse_file(file).cols
    /\ df' = parse_file(file).rows
    /\ stage' = "parsed"
    /\ UNCHANGED <<file, rules, cycle_start_day, summary, views, error>>

\* line 349
RemoveDuplicates ==
    /\ stage = "parsed"
    /\ LET r == remove_duplicates(cols, df)
       IN  IF r.err # ""
           THEN Raise(r.err) /\ UNCHANGED df
           ELSE df' = r.rows /\ stage' = "deduped" /\ UNCHANGED error
    /\ UNCHANGED <<file, cols, rules, cycle_start_day, summary, views>>

\* lines 350-351
Categorize ==
    /\ stage = "deduped"
    /\ rules' = load_category_rules
    /\ df' = categorize_transactions(df, load_category_rules)
    /\ cols' = cols \cup DerivedByCategorize
    /\ stage' = "categorized"
    /\ UNCHANGED <<file, cycle_start_day, summary, views, error>>

\* categorize_transactions called with a rule list of the caller's
ApplyCategorize ==
    /\ stage = "rules given"
    /\ df' = categorize_transactions(df, rules)
    /\ cols' = cols \cup DerivedByCategorize
    /\ stage' = "categorized"
    /\ UNCHANGED <<file, rules, cycle_start_day, summary, views, error>>

\* line 352
DetectInternalTransfers ==
    /\ stage = "categorized"
    /\ LET r == detect_internal_transfers(cols, df)
       IN  IF r.err # ""
           THEN Raise(r.err) /\ UNCHANGED df
           ELSE df' = r.rows /\ stage' = "transfers" /\ UNCHANGED error
    /\ UNCHANGED <<file, cols, rules, cycle_start_day, summary, views>>

\* lines 353-354
AssignCompetence ==
    /\ stage = "transfers"
    /\ LET r == assign_competence(cols, df, cycle_start_day)
       IN  IF r.err # ""
           THEN Raise(r.err) /\ UNCHANGED <<df, cols>>
           ELSE /\ df' = r.rows
                /\ cols' = cols \cup {"competence"}
                /\ stage' = "tagged"
                /\ UNCHANGED error
    /\ UNCHANGED <<file, rules, cycle_start_day, summary, views>>

\* lines 356-362, and line 402 when data_df is empty
Summarize ==
    /\ stage = "tagged"
    /\ IF df # <<>>
       THEN /\ summary' = compute_summary(df)
            /\ views' = summary_by_type(compute_summary(df))
            /\ stage' = "summarized"
       ELSE /\ stage' = "done"
            /\ UNCHANGED <<summary, views>>
    /\ UNCHANGED <<file, cols, df, rules, cycle_start_day, error>>

\* lines 387-398: groupby("category") on a frame without that column
\* raises KeyError
RenderChart ==
    /\ stage = "summarized"
    /\ IF views.pessoal.bare
       THEN Raise("KeyError")
       ELSE stage' = "done" /\ UNCHANGED error
    /\ UNCHANGED <<file, cols, df, rules, cycle_start_day, summary, views>>

----------------------------------------------------------------------------
(* Inputs *)

\* sequences over S of length at most n
SeqsUpTo(S, n) == UNION {[1..k -> S] : k \in 0..n}

BadDate == [kind |-> "text", y |-> 0, m |-> 0, d |-> 0]

RawRow(date, title, description, amount, operation_id, activity_id) ==
    [date |-> date, title |-> title, description |-> description,
     amount |-> amount, operation_id |-> operation_id, activity_id |-> activity_id]

wYasmin == <<"Y","a","s","m","i","n">>
wHolderUpper == <<"I","S","A","B","E","L","A"," ","V","A","L","O","N","N","I">>
wWise == <<"W","i","s","e">>
wUber == <<"U","b","e","r"," ">>

\* rows an upload may hold: (title, description) pairs crossed with
\* (amount, date, operation id) triples
UploadTexts ==
    { <<Str(wYasmin), Str(wHolderUpper)>>,
      <<NaNCell, Str(wWise)>>,
      <<Str(<<>>), Str(wWise)>>,
      <<Str(wUber), Str(wHolderUpper)>>,
      <<Str(wUber), NaNCell>>,
      <<NaNCell, Str(wHolderUpper)>> }

UploadValues ==
    { <<Str(<<"-","1","0",",","5","0">>), Date(2025, 11, 28), Id(1)>>,
      <<Str(<<"a","b","c">>), BadDate, NaNId>> }

UploadRows ==
    {RawRow(v[2], t[1], t[2], v[1], v[3], NaNId) : t \in UploadTexts, v \in UploadValues}

UploadColumns ==
    { {"date", "title", "description", "amount"},
      {"data", "description", "valor", "operationid"},
      {"date", "title", "description"},
      {"date", "title", "amount"},
      {"title", "description", "amount"} }

MaxRows == 2

\* the words texts are concatenated from
Words == {wYasmin, wHolderUpper, wWise, wUber}

MaxWords == 2

RECURSIVE Concat(_)
Concat(ws) == IF ws = <<>> THEN <<>> ELSE Head(ws) \o Concat(Tail(ws))

\* the texts of at most n words
Texts(n) == {Concat(ws) : ws \in SeqsUpTo(Words, n)}

\* one-row uploads that carry each text once as title and once as
\* description
TextUploads(n) ==
    {[present |-> TRUE, columns |-> {"date", "title", "description", "amount"},
      rows |-> <<RawRow(Date(2025, 12, 27), Str(t), NaNCell, Str(<<"7">>), NaNId, NaNId)>>] :
        t \in Texts(n)}
    \cup
    {[present |-> TRUE, columns |-> {"date", "description", "amount"},
      rows |-> <<RawRow(Date(2025, 12, 27), NoneCell, Str(t), Str(<<"7">>), NaNId, NaNId)>>] :
        t \in Texts(n)}

\* uploads of at most n rows, and the one-row uploads of texts of at most
\* w words
Uploads(n, w) ==
    {[present |-> TRUE, columns |-> c, rows |-> r] :
        c \in UploadColumns, r \in SeqsUpTo(UploadRows, n)}
    \cup TextUploads(w)

\* values of the sidebar's number_input (min_value=1, max_value=31,
\* value=28)
CycleDays == {1, 28}

TypeOK ==
    /\ stage \in {"start", "parsed", "deduped", "rules given", "categorized",
                  "transfers", "tagged", "summarized", "done", "crashed"}
    /\ error \in {"", "KeyError", "AttributeError"}
    /\ (stage = "crashed") <=> (error # "")

Init ==
    /\ stage = "start"
    /\ file \in Uploads(MaxRows, MaxWords) \cup {NoFile}
    /\ cycle_start_day \in CycleDays
    /\ cols = {}
    /\ df = <<>>
    /\ rules = <<>>
    /\ summary = NoSummary
    /\ views = NoViews
    /\ error = ""

Next ==
    \/ NoUpload
    \/ ParseFile
    \/ RemoveDuplicates
    \/ Categorize
    \/ DetectInternalTransfers
    \/ AssignCompetence
    \/ Summarize
    \/ RenderChart

Spec == Init /\ [][Next]_vars

----------------------------------------------------------------------------
(* categorize_transactions and detect_internal_transfers on their own:    *)
(* one-row frames, rule lists of the caller                               *)

FrameRow(date, title, description, amount, operation_id, activity_id) ==
    [date |-> date, title |-> title, description |-> description,
     amount |-> amount, operation_id |-> operation_id, activity_id |-> activity_id,
     category |-> "", subcategory |-> "",
     is_fixed |-> FALSE, is_extraordinary |-> FALSE,
     is_investment |-> FALSE, is_valonni |-> FALSE,
     competence |-> NoCompetence]

\* the rules the test lists are built from: the shipped Transferencia
\* interna (no subcategory), Carro, Empresa Valonni and Investimentos rules
TestRules == {ruleTransferencia, ruleCarro, ruleValonni, ruleInvestimentos}

MaxRules == 2

\* the lists of at most n test rules, and the shipped list
RuleLists(n) == SeqsUpTo(TestRules, n) \cup {load_category_rules}

FewCells == {NaNCell, Str(<<>>), Str(wHolderUpper), Str(wWise)}

\* (columns, title, description): every text as title beside a few
\* descriptions, and every text as description under a missing, null or
\* empty title
ClassifyInputs(n) ==
    {<<{"date", "title", "description", "amount"}, Str(t), d>> : t \in Texts(n), d \in FewCells}
    \cup {<<{"date", "title", "description", "amount"}, e, Str(t)>> :
            e \in {NaNCell, Str(<<>>)}, t \in Texts(n)}
    \cup {<<{"date", "description", "amount"}, NoneCell, Str(t)>> : t \in Texts(n)}

InitClassify ==
    /\ stage = "rules given"
    /\ file = NoFile
    /\ cycle_start_day = 28
    /\ \E x \in ClassifyInputs(MaxWords) :
          /\ cols = x[1]
          /\ df = <<FrameRow(NaT, x[2], x[3], NaNAmount, NaNId, NaNId)>>
    /\ rules \in RuleLists(MaxRules)
    /\ summary = NoSummary
    /\ views = NoViews
    /\ error = ""

NextClassify == ApplyCategorize \/ DetectInternalTransfers

SpecClassify == InitClassify /\ [][NextClassify]_vars

----------------------------------------------------------------------------
(* remove_duplicates on its own, behind parse_file *)

wMarket == <<"S","u","p","e","r","m","e","r","c","a","d","o","s">>

\* two records that differ in date, description and amount
OtherFields ==
    { <<Date(2025, 11, 28), Str(wUber), Str(<<"-","1","0",",","5","0">>)>>,
      <<Date(2025, 12, 27), Str(wMarket), Str(<<"7">>)>> }

DedupColumns ==
    { {"date", "description", "amount", "operationid", "activity_id"},
      {"date", "description", "amount", "operationid"},
      {"date", "description", "amount", "activity_id"},
      {"date", "description", "amount"} }

OperationIds(c) == IF "operationid" \in c THEN {NaNId, Id(1), Id(2)} ELSE {NaNId}

ActivityIds(c) ==
    IF "activity_id" \notin c THEN {NaNId}
    ELSE IF "operationid" \in c THEN {Id(1), Id(2)}
    ELSE {NaNId, Id(1), Id(2)}

DedupRows(c) ==
    {RawRow(o[1], NoneCell, o[2], o[3], op, act) :
        o \in OtherFields, op \in OperationIds(c), act \in ActivityIds(c)}

MaxDedupRows == 3

\* uploads of at most n rows
DedupUploads(n) ==
    UNION {{[present |-> TRUE, columns |-> c, rows |-> r] :
               r \in SeqsUpTo(DedupRows(c), n)} : c \in DedupColumns}

InitDedup ==
    /\ stage = "start"
    /\ file \in DedupUploads(MaxDedupRows)
    /\ cycle_start_day = 28
    /\ cols = {}
    /\ df = <<>>
    /\ rules = <<>>
    /\ summary = NoSummary
    /\ views = NoViews
    /\ error = ""

NextDedup == ParseFile \/ RemoveDuplicates

SpecDedup == InitDedup /\ [][NextDedup]_vars

----------------------------------------------------------------------------
(* assign_competence on its own: every date of the years from 2024 on,    *)
(* every cycle_start_day                                                  *)

YearSpan == 1

Years == 2024..(2024 + YearSpan)

ValidDates ==
    {dt \in {Date(y, m, d) : y \in Years, m \in 1..12, d \in 1..31} :
        dt.d <= DaysInMonth(dt.y, dt.m)}

FullColumns ==
    {"date", "title", "description", "amount"} \cup DerivedByCategorize

InitCompetence ==
    /\ stage = "transfers"
    /\ file = NoFile
    /\ cycle_start_day \in 1..31
    /\ cols = FullColumns
    /\ \E dt \in ValidDates \cup {NaT} :
          df = <<[FrameRow(dt, NaNCell, Str(wUber), Num(7000), NaNId, NaNId)
                    EXCEPT !.category = "Revisar"]>>
    /\ rules = load_category_rules
    /\ summary = NoSummary
    /\ views = NoViews
    /\ error = ""

NextCompetence == AssignCompetence

SpecCompetence == InitCompetence /\ [][NextCompetence]_vars

----------------------------------------------------------------------------
(* compute_summary and summary_by_type on classified, competence-tagged   *)
(* frames                                                                 *)

\* (category, is_fixed, is_extraordinary, is_investment, is_valonni)
Classes ==
    { <<"Carro", FALSE, TRUE, FALSE, FALSE>>,
      <<"Empresa Valonni", FALSE, FALSE, FALSE, TRUE>>,
      <<"Investimentos", FALSE, FALSE, TRUE, FALSE>> }

TaggedRows ==
    {[FrameRow(NaT, NaNCell, Str(wUber), a, NaNId, NaNId)
        EXCEPT !.category = k[1], !.is_fixed = k[2], !.is_extraordinary = k[3],
               !.is_investment = k[4], !.is_valonni = k[5], !.competence = c] :
        k \in Classes,
        a \in {NaNAmount, Num(-10500), Num(7000)},
        c \in {NoCompetence, Competence(2025, 11), Competence(2025, 12)}}

MaxSummaryRows == 2

InitSummary ==
    /\ stage = "tagged"
    /\ file = NoFile
    /\ cycle_start_day = 28
    /\ cols = FullColumns \cup {"competence"}
    /\ df \in SeqsUpTo(TaggedRows, MaxSummaryRows)
    /\ rules = load_category_rules
    /\ summary = NoSummary
    /\ views = NoViews
    /\ error = ""

NextSummary == Summarize \/ RenderChart

SpecSummary == InitSummary /\ [][NextSummary]_vars

----------------------------------------------------------------------------
(* Properties *)

Range(f) == {f[i] : i \in DOMAIN f}

\* a rule has a keyword that occurs, letter case aside, in the text
KeywordIn(rule, text) ==
    \E kw \in Range(rule.keywords) : Contains(Lower(kw), Lower(text))

\* r is the earliest rule of rs with a keyword in the text
EarliestHit(rs, r, text) ==
    /\ KeywordIn(rs[r], text)
    /\ \A q \in 1..(r - 1) : ~KeywordIn(rs[q], text)

\* the row carries the classification of the rule
ClassifiedBy(row, rule) ==
    /\ row.category = rule.category
    /\ row.subcategory = (IF rule.subcategory = NoSub THEN "" ELSE rule.subcategory)
    /\ row.is_fixed = rule.is_fixed
    /\ row.is_extraordinary = rule.is_extraordinary
    /\ row.is_investment = rule.is_investment
    /\ row.is_valonni = rule.is_valonni

\* C1: first-match policy.  After categorize_transactions, for every row
\* and every rule of the list: if the rule is the earliest one with a
\* keyword contained, case-insensitively, in the row's matching text, the
\* row's category, subcategory ("" when the rule has none) and four flags
\* are that rule's; later matching rules have no influence.
C1_FirstMatchPolicy ==
    stage = "categorized" =>
        \A i \in 1..Len(df) : \A r \in 1..Len(rules) :
            EarliestHit(rules, r, MatchText(df[i])) => ClassifiedBy(df[i], rules[r])

\* a text with "yasmin" under the list <<Carro, Investimentos>> came out
\* as Carro
C1_Witness ==
    /\ stage = "categorized"
    /\ rules = <<ruleCarro, ruleInvestimentos>>
    /\ Contains(Lower(kwYasmin), MatchText(df[1]))
    /\ KeywordIn(rules[2], MatchText(df[1]))
    /\ df[1].category = "Carro"
    /\ ~df[1].is_investment

\* the text C6 says the classifier matches against
ClaimedText(row) ==
    IF row.title.kind = "str" /\ row.title.s # <<>>
    THEN Lower(row.title.s)
    ELSE Lower(row.description.s)

\* C6: the rules are matched against the lower-cased title when the title
\* is present and non-empty and against the lower-cased description
\* otherwise: a row with a str description is classified by the earliest
\* rule with a keyword in that text, and is "Revisar" only if no rule has
\* one.
C6_TitleElseDescription ==
    stage = "categorized" =>
        \A i \in 1..Len(df) :
            df[i].description.kind = "str" =>
                /\ \A r \in 1..Len(rules) :
                      EarliestHit(rules, r, ClaimedText(df[i]))
                          => ClassifiedBy(df[i], rules[r])
                /\ (\E r \in 1..Len(rules) : KeywordIn(rules[r], ClaimedText(df[i])))
                      => df[i].category # "Revisar"

HolderIn(row) ==
    row.description.kind = "str" /\ Contains(Lower(kwIsabelaValonni), Lower(row.description.s))

MissingAmount ==
    file.present /\ "amount" \notin {rename_map(c) : c \in file.columns}

\* C7: an upload without an amount column ends the run with an empty
\* result and without an unhandled error, and classification never ran on
\* it (the rule list is loaded by the classification step alone).
C7_MissingAmountHalts ==
    (MissingAmount /\ stage \in {"done", "crashed"}) =>
        /\ stage = "done"
        /\ error = ""
        /\ df = <<>>
        /\ rules = <<>>

ViewsHolding(r) == {v \in {"pessoal", "valonni", "invest"} : r \in views[v].rows}

\* C8: partition exclusivity.  Under the shipped rules no summary row is
\* flagged is_valonni and is_investment at once, and every summary row
\* lies in exactly one of the three views of summary_by_type.
C8_PartitionExclusive ==
    \A r \in summary.rows :
        /\ ~(r.is_valonni /\ r.is_investment)
        /\ Cardinality(ViewsHolding(r)) = 1

\* a summary with a pass-through row and a personal row, each in its view
C8_Witness ==
    /\ stage = "summarized"
    /\ \E r \in summary.rows : r.is_valonni /\ ViewsHolding(r) = {"valonni"}
    /\ \E r \in summary.rows : ~r.is_valonni /\ ViewsHolding(r) = {"pessoal"}

\* C10: under the shipped list the Investimentos rule is unreachable: its
\* only keyword is a keyword of the earlier Carro rule, no row of the
\* pipeline ever has category "Investimentos" or is_investment, no summary
\* row has is_investment, and the investment view is empty.
C10_InvestimentosUnreachable ==
    /\ \E i \in 1..Len(load_category_rules) : \E j \in 1..Len(load_category_rules) :
          /\ i < j
          /\ load_category_rules[i].category = "Carro"
          /\ load_category_rules[j].category = "Investimentos"
          /\ Range(load_category_rules[j].keywords) \subseteq
                Range(load_category_rules[i].keywords)
    /\ \A i \in 1..Len(df) :
          df[i].category # "Investimentos" /\ ~df[i].is_investment
    /\ \A r \in summary.rows : ~r.is_investment
    /\ views.invest.rows = {}

\* a row whose text holds the Investimentos keyword went through the whole
\* pipeline as Carro and the investment view stayed empty
C10_Witness ==
    /\ stage = "summarized"
    /\ \E i \in 1..Len(df) :
          /\ KeywordIn(ruleInvestimentos, MatchText(df[i]))
          /\ df[i].category = "Carro"
          /\ df[i].competence.kind = "date"
    /\ summary.rows # {}
    /\ views.invest.rows = {}

----------------------------------------------------------------------------

\* the date of the calendar month after (y, m)
MonthAfter(y, m) == IF m = 12 THEN Competence(y + 1, 1) ELSE Competence(y, m + 1)

\* C3: after assign_competence a null date has a null competence; a date
\* whose day is >= cycle_start_day has day 1 of the following calendar
\* month (January of the next year after December); any other date has
\* day 1 of its own month.  With cycle_start_day = 28: 2025-11-27 ->
\* 2025-11, 2025-11-28 -> 2025-12, 2025-12-27 -> 2025-12, 2025-12-28 ->
\* 2026-01.
C3_CompetenceFunction ==
    stage = "tagged" =>
        \A i \in 1..Len(df) :
            LET dt == df[i].date
                c == df[i].competence
            IN  /\ dt.kind = "nat" => c = NoCompetence
                /\ (dt.kind = "date" /\ dt.d >= cycle_start_day) => c = MonthAfter(dt.y, dt.m)
                /\ (dt.kind = "date" /\ dt.d < cycle_start_day) => c = Competence(dt.y, dt.m)
                /\ cycle_start_day = 28 =>
                      /\ dt = Date(2025, 11, 27) => c = Competence(2025, 11)
                      /\ dt = Date(2025, 11, 28) => c = Competence(2025, 12)
                      /\ dt = Date(2025, 12, 27) => c = Competence(2025, 12)
                      /\ dt = Date(2025, 12, 28) => c = Competence(2026, 1)

\* 31 January, a day February does not have, was assigned to February
C3_Witness ==
    /\ stage = "tagged"
    /\ df[1].date = Date(2025, 1, 31)
    /\ cycle_start_day = 30
    /\ df[1].competence = Competence(2025, 2)

----------------------------------------------------------------------------

\* the frame remove_duplicates was called with
DedupInput == parse_file(file).rows

SameKey(a, b, K) == \A k \in K : a[k] = b[k]

\* the first record, in order, of each distinct value of the key K
RECURSIVE FirstOfEach(_, _)
FirstOfEach(rows, K) ==
    IF rows = <<>> THEN <<>>
    ELSE LET Other(r) == ~SameKey(r, Head(rows), K)
         IN  <<Head(rows)>> \o FirstOfEach(SelectSeq(Tail(rows), Other), K)

\* C4: dedup precedence.  With an operation_id column the output of
\* remove_duplicates is the first record, in input order, of each distinct
\* operation_id, in the original relative order, whatever activity_id and
\* the other fields hold; activity_id is the key only without an
\* operation_id column, and (date, description, amount) only without both.
C4_DedupPrecedence ==
    stage = "deduped" =>
        df = FirstOfEach(DedupInput,
                         IF "operation_id" \in cols THEN {"operation_id"}
                         ELSE IF "activity_id" \in cols THEN {"activity_id"}
                         ELSE {"date", "description", "amount"})

\* both id columns present: two records sharing an operation_id and
\* differing in everything else collapsed to the first, and two records
\* sharing an activity_id under different operation_ids both survived
C4_Witness ==
    /\ stage = "deduped"
    /\ {"operation_id", "activity_id"} \subseteq cols
    /\ Len(DedupInput) = 3 /\ Len(df) = 2
    /\ DedupInput[1].operation_id = DedupInput[3].operation_id
    /\ DedupInput[1].operation_id.kind = "val"
    /\ DedupInput[1].activity_id # DedupInput[3].activity_id
    /\ DedupInput[1].date # DedupInput[3].date
    /\ DedupInput[1].description # DedupInput[3].description
    /\ DedupInput[1].amount # DedupInput[3].amount
    /\ DedupInput[1].activity_id = DedupInput[2].activity_id
    /\ df = <<DedupInput[1], DedupInput[2]>>

NullOperationIds(rows) == {i \in 1..Len(rows) : rows[i].operation_id.kind = "nan"}

\* C9: with an operation_id column, records with a missing operation_id
\* are duplicates of one another: at most one survives remove_duplicates,
\* and it is the first of them in input order.
C9_NullIdsCollapse ==
    (stage = "deduped" /\ "operation_id" \in cols) =>
        /\ Cardinality(NullOperationIds(df)) <= 1
        /\ NullOperationIds(DedupInput) # {} =>
              \E i \in NullOperationIds(df) :
                  df[i] = DedupInput[CHOOSE j \in NullOperationIds(DedupInput) :
                                        \A k \in NullOperationIds(DedupInput) : j <= k]

\* two records without operation_id that differ in date, description,
\* amount and activity_id went in, one came out
C9_Witness ==
    /\ stage = "deduped"
    /\ "operation_id" \in cols
    /\ \E i \in NullOperationIds(DedupInput) : \E j \in NullOperationIds(DedupInput) :
          /\ i < j
          /\ DedupInput[i].date # DedupInput[j].date
          /\ DedupInput[i].description # DedupInput[j].description
          /\ DedupInput[i].amount # DedupInput[j].amount
          /\ DedupInput[i].activity_id # DedupInput[j].activity_id
    /\ Cardinality(NullOperationIds(df)) = 1

----------------------------------------------------------------------------

RECURSIVE SumTotals(_)
SumTotals(S) ==
    IF S = {} THEN 0
    ELSE LET r == CHOOSE x \in S : TRUE IN r.total_amount + SumTotals(S \ {r})

\* the amounts of the transactions with a competence in Cs and a non-null
\* amount, added up
RECURSIVE SumAmounts(_, _)
SumAmounts(rows, Cs) ==
    IF rows = <<>> THEN 0
    ELSE (IF Head(rows).competence \in Cs /\ Head(rows).amount.kind = "num"
          THEN Head(rows).amount.v ELSE 0) + SumAmounts(Tail(rows), Cs)

CompetencesOf(rows) == {rows[i].competence : i \in 1..Len(rows)} \ {NoCompetence}

\* C2: conservation.  The total_amount of all rows of compute_summary adds
\* up to the amounts of the transactions with a non-null competence and a
\* non-null amount, and so do, for each competence, the summary rows and
\* the transactions of that competence.
C2_Conservation ==
    stage = "summarized" =>
        /\ SumTotals(summary.rows) = SumAmounts(df, CompetencesOf(df))
        /\ \A c \in CompetencesOf(df) :
              SumTotals({r \in summary.rows : r.competence = c}) = SumAmounts(df, {c})
        /\ \A r \in summary.rows : r.competence \in CompetencesOf(df)

\* two transactions of one group were added into one summary row, beside
\* nothing else
C2_Witness ==
    /\ stage = "summarized"
    /\ Len(df) = 2
    /\ GroupKey(df[1]) = GroupKey(df[2])
    /\ df[1].amount = Num(-10500) /\ df[2].amount = Num(7000)
    /\ \E r \in summary.rows : summary.rows = {r} /\ r.total_amount = -3500

====
